---- MODULE Spec2Model ----
(***************************************************************************)
(* A model of the Casus chat application: the Worker (router, chat         *)
(* handler, persona composer, dice commands, SSE encoder) and the browser  *)
(* client (sendMessage with its incremental SSE decoder, resetChat).       *)
(*                                                                         *)
(* A JavaScript string is a sequence of characters; a character is a       *)
(* one-character TLA+ string, or the name "U+XXXX" of its code point when  *)
(* it is not ASCII (and for the backquote, U+0060).  A byte of the wire is  *)
(* the ASCII character it encodes, or "0xNN" inside a multi-byte sequence.  *)
(***************************************************************************)
EXTENDS Integers, Sequences, FiniteSets, TLC

LF == "\n"
CR == "\r"
TAB == "\t"
QUOTE == "\""
BSL == "\\"

(***************************************************************************)
(* String primitives of the JavaScript runtime used by both programs.      *)
(***************************************************************************)
Take(s, n) == SubSeq(s, 1, n)
Drop(s, n) == SubSeq(s, n + 1, Len(s))

\* Whether p occurs in s at position i
MatchAt(s, p, i) == i + Len(p) - 1 <= Len(s) /\ \A j \in DOMAIN p : s[i + j - 1] = p[j]

\* String.prototype.startsWith
StartsWith(s, p) == MatchAt(s, p, 1)

RECURSIVE IndexFrom(_, _, _)
IndexFrom(s, p, i) ==
    IF i + Len(p) - 1 > Len(s) THEN 0
    ELSE IF MatchAt(s, p, i) THEN i
    ELSE IndexFrom(s, p, i + 1)

\* String.prototype.indexOf, 1-based; 0 when p does not occur (-1 in JavaScript)
IndexOf(s, p) == IndexFrom(s, p, 1)

\* String.prototype.includes
Includes(s, p) == IndexOf(s, p) # 0

RECURSIVE Split(_, _)
\* String.prototype.split on a one-character separator
Split(s, c) ==
    LET i == IndexOf(s, <<c>>)
    IN IF i = 0 THEN <<s>> ELSE <<Take(s, i - 1)>> \o Split(Drop(s, i), c)

RECURSIVE Join(_, _)
\* Array.prototype.join
Join(ss, sep) ==
    IF ss = <<>> THEN <<>>
    ELSE IF Len(ss) = 1 THEN ss[1]
    ELSE ss[1] \o sep \o Join(Tail(ss), sep)

RECURSIVE Flatten(_)
Flatten(ss) == IF ss = <<>> THEN <<>> ELSE Head(ss) \o Flatten(Tail(ss))

\* The white space that trim, trimStart and \s remove, among the characters modelled
WhiteSpace == {" ", TAB, LF, CR}

RECURSIVE FirstInk(_, _)
\* The first position from i on that holds no white space (Len(s) + 1 when none does)
FirstInk(s, i) == IF i <= Len(s) /\ s[i] \in WhiteSpace THEN FirstInk(s, i + 1) ELSE i

RECURSIVE LastInk(_, _)
LastInk(s, i) == IF i >= 1 /\ s[i] \in WhiteSpace THEN LastInk(s, i - 1) ELSE i

TrimStart(s) == SubSeq(s, FirstInk(s, 1), Len(s))

TrimEnd(s) == SubSeq(s, 1, LastInk(s, Len(s)))

Trim(s) == TrimEnd(TrimStart(s))

(***************************************************************************)
(* TextEncoder and TextDecoder (UTF-8).  Utf8Table lists the non-ASCII     *)
(* characters that occur in the program's texts with their byte sequences. *)
(***************************************************************************)
Utf8Table ==
    << <<"U+00E9", <<"0xC3", "0xA9">> >>,
       <<"U+2013", <<"0xE2", "0x80", "0x93">> >>,
       <<"U+2192", <<"0xE2", "0x86", "0x92">> >>,
       <<"U+1F3B2", <<"0xF0", "0x9F", "0x8E", "0xB2">> >> >>

\* The characters and the bytes that are not ASCII
Utf8Chars == {Utf8Table[i][1] : i \in DOMAIN Utf8Table}

Utf8Bytes ==
    UNION {{Utf8Table[i][2][j] : j \in DOMAIN Utf8Table[i][2]} : i \in DOMAIN Utf8Table}

Utf8Encode(c) ==
    IF c \in Utf8Chars
    THEN Utf8Table[CHOOSE i \in DOMAIN Utf8Table : Utf8Table[i][1] = c][2]
    ELSE <<c>>

\* TextEncoder.encode
TextEncode(s) ==
    IF \A i \in DOMAIN s : s[i] \notin Utf8Chars THEN s
    ELSE Flatten([i \in DOMAIN s |-> Utf8Encode(s[i])])

RECURSIVE DecodeLoop(_, _, _)
\* The characters of bytes from position i on, and the incomplete sequence at the end
DecodeLoop(bytes, i, out) ==
    LET Whole == {t \in DOMAIN Utf8Table : MatchAt(bytes, Utf8Table[t][2], i)}
        left == SubSeq(bytes, i, Len(bytes))
        Partial == {t \in DOMAIN Utf8Table : StartsWith(Utf8Table[t][2], left)}
    IN IF i > Len(bytes) THEN [text |-> out, pending |-> <<>>]
       ELSE IF bytes[i] \notin Utf8Bytes THEN DecodeLoop(bytes, i + 1, Append(out, bytes[i]))
       ELSE IF Whole # {}
       THEN LET t == CHOOSE t \in Whole : TRUE
            IN DecodeLoop(bytes, i + Len(Utf8Table[t][2]), Append(out, Utf8Table[t][1]))
       ELSE IF Partial # {} THEN [text |-> out, pending |-> left]
       ELSE DecodeLoop(bytes, i + 1, Append(out, "U+FFFD"))

\* TextDecoder.decode(value, { stream: true }): an incomplete trailing sequence is
\* kept for the next call
TextDecodeStream(held, value) ==
    LET bytes == held \o value
    IN IF \A i \in DOMAIN bytes : bytes[i] \notin Utf8Bytes
       THEN [text |-> bytes, pending |-> <<>>]
       ELSE DecodeLoop(bytes, 1, <<>>)

(***************************************************************************)
(* JSON.  JsonStringifyResponse is JSON.stringify({ response: text }).     *)
(* JsonParse is JSON.parse on the payloads that reach it here: an object   *)
(* with the one member "response", the OpenAI delta object, the empty      *)
(* object; surrounded by any JSON white space.  Every other payload these  *)
(* streams can produce (a bare [DONE] among other data lines, two values   *)
(* joined by a line break, a truncated object) is a syntax error for       *)
(* JSON.parse and for JsonParse alike.                                     *)
(***************************************************************************)
\* The characters JSON.stringify writes as a two-character escape, with the letter
JsonEscapes ==
    << <<QUOTE, QUOTE>>, <<BSL, BSL>>, <<LF, "n">>, <<CR, "r">>, <<TAB, "t">> >>

JsonEscapeOf(c) ==
    IF \E i \in DOMAIN JsonEscapes : JsonEscapes[i][1] = c
    THEN <<BSL, JsonEscapes[CHOOSE i \in DOMAIN JsonEscapes : JsonEscapes[i][1] = c][2]>>
    ELSE <<c>>

JsonQuote(text) == <<QUOTE>> \o Flatten([i \in DOMAIN text |-> JsonEscapeOf(text[i])]) \o <<QUOTE>>

ResponseOpen ==
    <<"{","\"","r","e","s","p","o","n","s","e","\"",":">>
JsonStringifyResponse(text) == ResponseOpen \o JsonQuote(text) \o <<"}">>

JsonFail == [ok |-> FALSE, value |-> <<>>, rest |-> <<>>]

RECURSIVE JsonStringBody(_, _, _)
\* The characters of a JSON string literal of s whose opening quote is before position i
JsonStringBody(s, i, out) ==
    IF i > Len(s) THEN JsonFail
    ELSE IF s[i] = QUOTE THEN [ok |-> TRUE, value |-> out, rest |-> Drop(s, i)]
    ELSE IF s[i] = BSL
    THEN IF i < Len(s) /\ \E e \in DOMAIN JsonEscapes : JsonEscapes[e][2] = s[i + 1]
         THEN LET e == CHOOSE e \in DOMAIN JsonEscapes : JsonEscapes[e][2] = s[i + 1]
              IN JsonStringBody(s, i + 2, Append(out, JsonEscapes[e][1]))
         ELSE IF i < Len(s) /\ s[i + 1] = "/" THEN JsonStringBody(s, i + 2, Append(out, "/"))
         ELSE JsonFail
    ELSE IF s[i] \in {LF, CR, TAB} THEN JsonFail
    ELSE JsonStringBody(s, i + 1, Append(out, s[i]))

\* The JSON string literal that starts at position i of s
JsonStringLiteral(s, i) ==
    IF i <= Len(s) /\ s[i] = QUOTE THEN JsonStringBody(s, i + 1, <<>>) ELSE JsonFail

ChoicesOpen ==
    <<"{","\"","c","h","o","i","c","e","s","\"",":","[","{","\"","d","e","l","t","a","\"",":",
      "{","\"","c","o","n","t","e","n","t","\"",":">>
ChoicesClose ==
    <<"}","}","]","}">>
\* JSON.parse: [ok] is FALSE when it throws; response and delta are the members the
\* client reads, "absent" standing for undefined
JsonParse(data) ==
    LET s == Trim(data)
        AsResponse == JsonStringLiteral(s, Len(ResponseOpen) + 1)
        AsChoices == JsonStringLiteral(s, Len(ChoicesOpen) + 1)
    IN IF StartsWith(s, ResponseOpen) /\ AsResponse.ok /\ AsResponse.rest = <<"}">>
       THEN [ok |-> TRUE, response |-> <<"string", AsResponse.value>>, delta |-> <<"absent", <<>> >>]
       ELSE IF StartsWith(s, ChoicesOpen) /\ AsChoices.ok /\ AsChoices.rest = ChoicesClose
       THEN [ok |-> TRUE, response |-> <<"absent", <<>> >>, delta |-> <<"string", AsChoices.value>>]
       ELSE IF s = <<"{", "}">>
       THEN [ok |-> TRUE, response |-> <<"absent", <<>> >>, delta |-> <<"absent", <<>> >>]
       ELSE [ok |-> FALSE, response |-> <<"absent", <<>> >>, delta |-> <<"absent", <<>> >>]

(***************************************************************************)
(* The Worker's SSE encoder.                                               *)
(***************************************************************************)
SseData ==
    <<"d","a","t","a",":"," ">>
SseDoneChunk ==
    <<"d","a","t","a",":"," ","[","D","O","N","E","]","\n","\n">>
\* The chunks sseTextResponse enqueues before it closes the stream
sseTextChunks(text) ==
    << TextEncode(SseData \o JsonStringifyResponse(text) \o <<LF, LF>>),
       TextEncode(SseDoneChunk) >>

\* The bytes of the body of sseTextResponse(text)
sseTextResponse(text) == Flatten(sseTextChunks(text))

(***************************************************************************)
(* The client's SSE decoder.                                               *)
(***************************************************************************)
DataField ==
    <<"d","a","t","a",":">>
DoneMarker ==
    <<"[","D","O","N","E","]">>
RemoveCR(s) == SelectSeq(s, LAMBDA c : c # CR)

\* The data lines of one raw event, each without its field name and leading space
DataLines(rawEvent) ==
    LET lines == Split(rawEvent, LF)
        kept == SelectSeq(lines, LAMBDA line : StartsWith(line, DataField))
    IN [i \in DOMAIN kept |-> TrimStart(Drop(kept[i], Len(DataField)))]

RECURSIVE ConsumeLoop(_, _)
ConsumeLoop(normalized, events) ==
    LET eventEndIndex == IndexOf(normalized, <<LF, LF>>)
        rawEvent == Take(normalized, eventEndIndex - 1)
        dataLines == DataLines(rawEvent)
    IN IF eventEndIndex = 0 THEN [events |-> events, buffer |-> normalized]
       ELSE ConsumeLoop(Drop(normalized, eventEndIndex + 1),
                        IF dataLines = <<>> THEN events
                        ELSE Append(events, Join(dataLines, <<LF>>)))

consumeSseEvents(b) == ConsumeLoop(RemoveCR(b), <<>>)

\* The text one event's payload adds: the Workers AI shape, then the OpenAI shape;
\* nothing when JSON.parse throws
EventContent(data) ==
    LET jsonData == JsonParse(data)
    IN IF ~jsonData.ok THEN <<>>
       ELSE IF jsonData.response[1] = "string" /\ Len(jsonData.response[2]) > 0
       THEN jsonData.response[2]
       ELSE IF jsonData.delta[1] = "string" THEN jsonData.delta[2]
       ELSE <<>>

RECURSIVE ProcessEventsPastDone(_, _, _)
\* ProcessEvents without its test for [DONE]
ProcessEventsPastDone(events, text, flushes) ==
    IF events = <<>> THEN [responseText |-> text, flushes |-> flushes, sawDone |-> FALSE]
    ELSE LET content == EventContent(Head(events))
         IN IF content # <<>>
            THEN ProcessEventsPastDone(Tail(events), text \o content,
                                       Append(flushes, text \o content))
            ELSE ProcessEventsPastDone(Tail(events), text, flushes)

RECURSIVE ProcessEvents(_, _, _)
\* The for loop over parsed.events: the text after it, every value flushed to the
\* element on the way, and whether it met [DONE]
ProcessEvents(events, text, flushes) ==
    IF events = <<>> THEN [responseText |-> text, flushes |-> flushes, sawDone |-> FALSE]
    ELSE IF Head(events) = DoneMarker
    THEN [responseText |-> text, flushes |-> flushes, sawDone |-> TRUE]
    ELSE LET content == EventContent(Head(events))
         IN IF content # <<>>
            THEN ProcessEvents(Tail(events), text \o content, Append(flushes, text \o content))
            ELSE ProcessEvents(Tail(events), text, flushes)

(***************************************************************************)
(* The browser client (chat.js).                                           *)
(*                                                                         *)
(* calls holds one record per sendMessage call that got past its guard:    *)
(* the call's position (pc) and its local variables.  The fields flushed,  *)
(* origin, sent, stream and split of a call (the values it rendered, where *)
(* its body came from, the body's bytes, whether they came in more than    *)
(* one chunk), the field req of a history entry, fetchCalls and resetMark  *)
(* record what happened and are read by no action.                         *)
(***************************************************************************)
VARIABLES
    chatHistory,    \* let chatHistory: entries [role, content], req the call that pushed it
    isProcessing,   \* let isProcessing
    userInput,      \* userInput.value
    inputDisabled,  \* userInput.disabled and sendButton.disabled
    chatMessages,   \* the children of #chat-messages: [role, text], el the call owning the element
    calls,          \* the sendMessage calls, in the order they started
    fetchCalls,     \* how many times fetch("/api/chat") was called
    resetMark,      \* how many calls had started when resetChat last ran
    http,           \* the Worker: the last request it handled and what it did
    dice            \* the dice roller: the last command or draw and its result

clientVars ==
    <<chatHistory, isProcessing, userInput, inputDisabled, chatMessages, calls, fetchCalls,
      resetMark>>

vars == <<clientVars, http, dice>>

MaxRequests == 2
MaxTextLen == 2
MaxBlocks == 3
MaxChunk == 2

\* The two texts the page shows and no code reads are kept whole, as one token each:
\* the greeting of resetChat and the apology of the catch block
GreetingText == <<"Salut, je suis Casus. [...] Astuce: essaie /roll d20 ou clique une suggestion.">>

ApologyText == <<"Desole - je n'ai pas pu traiter ta demande. Reessaie dans un instant.">>

Hi ==
    <<"h","i">>
\* addMessageToChat: the child it appends to #chat-messages
MessageEl(role, content) == [role |-> role, text |-> content, el |-> 0]

\* What fetch resolves with: ok and body of the Response, and the bytes its body will
\* deliver (origin and sent tell where the bytes come from)
Response(ok, hasBody, origin, sent, stream) ==
    [ok |-> ok, hasBody |-> hasBody, origin |-> origin, sent |-> sent, stream |-> stream]

\* A sendMessage call suspended at await fetch(...)
NewCall(posted) ==
    [pc |-> "fetching", posted |-> posted, wire |-> <<>>, held |-> <<>>, buffer |-> <<>>,
     responseText |-> <<>>, sawDone |-> FALSE, flushed |-> <<>>,
     origin |-> "none", sent |-> <<>>, stream |-> <<>>, split |-> FALSE]

\* buildMessagesForApi: a copy of the history
buildMessagesForApi(history) ==
    [i \in DOMAIN history |-> [role |-> history[i].role, content |-> history[i].content]]

\* sendMessage whose guard tests the message alone, not isProcessing
sendMessageUnguarded(value) ==
    LET message == Trim(value)
        n == Len(calls) + 1
        history == Append(chatHistory, [role |-> "user", content |-> message, req |-> n])
    IN IF message = <<>>
       THEN /\ userInput' = value
            /\ UNCHANGED <<chatHistory, isProcessing, inputDisabled, chatMessages, calls,
                           fetchCalls, resetMark>>
       ELSE /\ isProcessing' = TRUE
            /\ inputDisabled' = TRUE
            /\ userInput' = <<>>
            /\ chatHistory' = history
            /\ chatMessages' = chatMessages \o
                   <<MessageEl("user", message), [role |-> "assistant", text |-> <<>>, el |-> n]>>
            /\ calls' = Append(calls, NewCall(buildMessagesForApi(history)))
            /\ fetchCalls' = fetchCalls + 1
            /\ UNCHANGED resetMark

\* sendMessage from its first line to its first await, value being userInput.value
sendMessage(value) ==
    LET message == Trim(value)
        n == Len(calls) + 1
        history == Append(chatHistory, [role |-> "user", content |-> message, req |-> n])
    IN IF message = <<>> \/ isProcessing
       THEN /\ userInput' = value
            /\ UNCHANGED <<chatHistory, isProcessing, inputDisabled, chatMessages, calls,
                           fetchCalls, resetMark>>
       ELSE /\ isProcessing' = TRUE
            /\ inputDisabled' = TRUE
            /\ userInput' = <<>>
            /\ chatHistory' = history
            /\ chatMessages' = chatMessages \o
                   <<MessageEl("user", message), [role |-> "assistant", text |-> <<>>, el |-> n]>>
            /\ calls' = Append(calls, NewCall(buildMessagesForApi(history)))
            /\ fetchCalls' = fetchCalls + 1
            /\ UNCHANGED resetMark

\* The catch and finally blocks
Fail(r) ==
    /\ chatMessages' = Append(chatMessages, MessageEl("assistant", ApologyText))
    /\ isProcessing' = FALSE
    /\ inputDisabled' = FALSE
    /\ calls' = [calls EXCEPT ![r].pc = "done"]
    /\ UNCHANGED <<chatHistory, userInput, fetchCalls, resetMark>>

\* flushAssistantText: the call's element shows text (the element may have left the page)
Flush(r, text) ==
    [i \in DOMAIN chatMessages |->
        IF chatMessages[i].el = r THEN [chatMessages[i] EXCEPT !.text = text]
        ELSE chatMessages[i]]

\* After the read loop: the history push and the finally block
Finish(r, call) ==
    /\ chatHistory' = IF Len(call.responseText) > 0
                      THEN Append(chatHistory,
                               [role |-> "assistant", content |-> call.responseText, req |-> r])
                      ELSE chatHistory
    /\ chatMessages' = Flush(r, call.responseText)
    /\ isProcessing' = FALSE
    /\ inputDisabled' = FALSE
    /\ calls' = [calls EXCEPT ![r] = [call EXCEPT !.pc = "done"]]
    /\ UNCHANGED <<userInput, fetchCalls, resetMark>>

\* AfterChunk without the line buffer = parsed.buffer: what a chunk leaves
\* unfinished is dropped
AfterChunkNoCarry(call, k) ==
    LET decoded == TextDecodeStream(call.held, Take(call.wire, k))
        parsed == consumeSseEvents(call.buffer \o decoded.text)
        loop == ProcessEvents(parsed.events, call.responseText, <<>>)
    IN [call EXCEPT !.wire = Drop(call.wire, k),
                    !.held = decoded.pending,
                    !.buffer = <<>>,
                    !.responseText = loop.responseText,
                    !.sawDone = loop.sawDone,
                    !.flushed = call.flushed \o loop.flushes,
                    !.split = call.wire # call.stream]

\* The call after one turn of the read loop with done = false, value being the
\* next k bytes of the body
AfterChunk(call, k) ==
    LET decoded == TextDecodeStream(call.held, Take(call.wire, k))
        parsed == consumeSseEvents(call.buffer \o decoded.text)
        loop == ProcessEvents(parsed.events, call.responseText, <<>>)
    IN [call EXCEPT !.wire = Drop(call.wire, k),
                    !.held = decoded.pending,
                    !.buffer = IF loop.sawDone THEN <<>> ELSE parsed.buffer,
                    !.responseText = loop.responseText,
                    !.sawDone = loop.sawDone,
                    !.flushed = call.flushed \o loop.flushes,
                    !.split = call.wire # call.stream]

ReadChunk(r, k) ==
    /\ r \in DOMAIN calls
    /\ calls[r].pc = "reading"
    /\ k \in 1..Len(calls[r].wire)
    /\ \E after \in {AfterChunk(calls[r], k)} :
          IF after.sawDone
          THEN Finish(r, after)
          ELSE /\ calls' = [calls EXCEPT ![r] = after]
               /\ chatMessages' = Flush(r, after.responseText)
               /\ UNCHANGED <<chatHistory, isProcessing, userInput, inputDisabled, fetchCalls,
                              resetMark>>

\* The call after the turn of the read loop with done = true: the events left in
\* the buffer, closed by a blank line
AfterEnd(call) ==
    LET parsed == consumeSseEvents(call.buffer \o <<LF, LF>>)
        loop == ProcessEvents(parsed.events, call.responseText, <<>>)
    IN [call EXCEPT !.responseText = loop.responseText,
                    !.flushed = call.flushed \o loop.flushes]

\* The body has delivered all its bytes
ReadEnd(r) ==
    /\ r \in DOMAIN calls
    /\ calls[r].pc = "reading"
    /\ calls[r].wire = <<>>
    /\ \E after \in {AfterEnd(calls[r])} : Finish(r, after)

(***************************************************************************)
(* The read loop alone: one call reading a body that is either the bytes   *)
(* of sseTextResponse(text) or blocks an upstream model may send, cut into *)
(* chunks at every position.                                               *)
(***************************************************************************)
TextAlphabet == {"a", QUOTE, BSL, LF, CR, "U+00E9"}

Texts == UNION {[1..n -> TextAlphabet] : n \in 0..MaxTextLen}

BlockResponse ==
    <<"d","a","t","a",":"," ","{","\"","r","e","s","p","o","n","s","e","\"",":","\"","a","\"",
      "}","\n","\n">>
BlockDone ==
    <<"d","a","t","a",":"," ","[","D","O","N","E","]","\n","\n">>
BlockDelta ==
    <<"d","a","t","a",":","{","\"","c","h","o","i","c","e","s","\"",":","[","{","\"","d","e",
      "l","t","a","\"",":","{","\"","c","o","n","t","e","n","t","\"",":","\"","c","\"","}","}",
      "]","}","\r","\n","\r","\n">>
BlockBroken ==
    <<":"," ","k","\n","d","a","t","a",":"," ","{","o","o","p","s","\n","\n">>
BlockOpen ==
    <<"d","a","t","a",":"," ","{","\"","r","e","s","p","o","n","s","e","\"",":","\"","d","\"",
      "}","\n">>
Blocks == {BlockResponse, BlockDone, BlockDelta, BlockBroken, BlockOpen}

UpstreamBodies == {Flatten(bs) : bs \in UNION {[1..n -> Blocks] : n \in 0..MaxBlocks}}

StreamResponses ==
    {Response(TRUE, TRUE, "encoder", t, sseTextResponse(t)) : t \in Texts}
    \cup {Response(TRUE, TRUE, "upstream", <<>>, TextEncode(b)) : b \in UpstreamBodies}

\* The call once fetch has resolved with an OK response and getReader() was called
Reading(call, resp) ==
    [call EXCEPT !.pc = "reading", !.wire = resp.stream, !.origin = resp.origin,
                 !.sent = resp.sent, !.stream = resp.stream]

IdleWorker == [op |-> "none"]
IdleDice == [op |-> "none"]

StreamInit ==
    /\ \E resp \in StreamResponses :
          calls = <<Reading(NewCall(<<[role |-> "user", content |-> Hi]>>), resp)>>
    /\ chatHistory = <<[role |-> "user", content |-> Hi, req |-> 1]>>
    /\ isProcessing = TRUE
    /\ userInput = <<>>
    /\ inputDisabled = TRUE
    /\ chatMessages = <<MessageEl("assistant", GreetingText), MessageEl("user", Hi),
                        [role |-> "assistant", text |-> <<>>, el |-> 1]>>
    /\ fetchCalls = 1
    /\ resetMark = 0
    /\ http = IdleWorker
    /\ dice = IdleDice

\* The sizes the next chunk of a body takes: any size for the first one, then up to
\* MaxChunk bytes or all that is left
ChunkSizes(call) ==
    {k \in 1..Len(call.wire) : k <= MaxChunk \/ k = Len(call.wire) \/ call.wire = call.stream}

StreamChunk == \E k \in ChunkSizes(calls[1]) : ReadChunk(1, k) /\ UNCHANGED <<http, dice>>

StreamEnd == ReadEnd(1) /\ UNCHANGED <<http, dice>>

StreamNext == StreamChunk \/ StreamEnd

SpecStream == StreamInit /\ [][StreamNext]_vars


(***************************************************************************)
(* The client as a whole: the page's event handlers, the network's answers *)
(* to each fetch and the turns of each call's read loop, in any order.     *)
(***************************************************************************)
\* What the user types ("  " trims to the empty message) and the data-prompt
\* attributes of the quick-prompt buttons (one of them empty)
Typed == {Hi, <<" ", " ">>}

Prompts == {Hi, <<>>}

ClientResponses ==
    { Response(FALSE, TRUE, "error", <<>>, <<>>),
      Response(TRUE, FALSE, "error", <<>>, <<>>),
      Response(TRUE, TRUE, "encoder", <<"y", "o">>, sseTextResponse(<<"y", "o">>)),
      Response(TRUE, TRUE, "upstream", <<>>, TextEncode(BlockResponse \o BlockDelta)),
      Response(TRUE, TRUE, "upstream", <<>>, TextEncode(BlockDone)) }

ClientInit ==
    /\ chatHistory = <<>>
    /\ isProcessing = FALSE
    /\ userInput = <<>>
    /\ inputDisabled = FALSE
    /\ chatMessages = <<MessageEl("assistant", GreetingText)>>
    /\ calls = <<>>
    /\ fetchCalls = 0
    /\ resetMark = 0
    /\ http = IdleWorker
    /\ dice = IdleDice

\* A sendMessage call may start only while fewer than MaxRequests have
CanCall(value) == Trim(value) = <<>> \/ isProcessing \/ Len(calls) < MaxRequests

\* The user edits the textarea
TypeInput ==
    /\ ~inputDisabled
    /\ \E text \in Typed : userInput' = text
    /\ UNCHANGED <<chatHistory, isProcessing, inputDisabled, chatMessages, calls, fetchCalls,
                   resetMark, http, dice>>

\* Enter without Shift in the textarea
KeydownEnter ==
    /\ ~inputDisabled
    /\ CanCall(userInput)
    /\ sendMessage(userInput)
    /\ UNCHANGED <<http, dice>>

SendClick ==
    /\ ~inputDisabled
    /\ CanCall(userInput)
    /\ sendMessage(userInput)
    /\ UNCHANGED <<http, dice>>

onQuickPromptClick ==
    \E prompt \in Prompts :
        /\ CanCall(prompt)
        /\ IF prompt = <<>>
           THEN UNCHANGED clientVars
           ELSE sendMessage(prompt)
        /\ UNCHANGED <<http, dice>>

resetChat ==
    /\ chatHistory' = <<>>
    /\ chatMessages' = <<MessageEl("assistant", GreetingText)>>
    /\ userInput' = <<>>
    /\ resetMark' = Len(calls)
    /\ UNCHANGED <<isProcessing, inputDisabled, calls, fetchCalls, http, dice>>

\* fetch rejects (the network fails): the catch block
FetchRejects ==
    \E r \in DOMAIN calls :
        /\ calls[r].pc = "fetching"
        /\ Fail(r)
        /\ UNCHANGED <<http, dice>>

\* fetch resolves: a response that is not OK or has no body throws
FetchResolves ==
    \E r \in DOMAIN calls, resp \in ClientResponses :
        /\ calls[r].pc = "fetching"
        /\ IF ~resp.ok \/ ~resp.hasBody
           THEN Fail(r)
           ELSE /\ calls' = [calls EXCEPT ![r] = Reading(calls[r], resp)]
                /\ UNCHANGED <<chatHistory, isProcessing, userInput, inputDisabled,
                               chatMessages, fetchCalls, resetMark>>
        /\ UNCHANGED <<http, dice>>

\* The sizes of the chunks of a body that arrives event by event
EventSizes(call) ==
    {k \in 1..Len(call.wire) :
        k = Len(call.wire) \/ (k >= 2 /\ call.wire[k - 1] = LF /\ call.wire[k] = LF)}

ChunkArrives ==
    \E r \in DOMAIN calls :
        \E k \in EventSizes(calls[r]) : ReadChunk(r, k) /\ UNCHANGED <<http, dice>>

StreamCloses == \E r \in DOMAIN calls : ReadEnd(r) /\ UNCHANGED <<http, dice>>

\* reader.read() rejects (the connection drops): the catch block
ReadRejects ==
    \E r \in DOMAIN calls :
        /\ calls[r].pc = "reading"
        /\ Fail(r)
        /\ UNCHANGED <<http, dice>>

ClientNext ==
    \/ TypeInput
    \/ KeydownEnter
    \/ SendClick
    \/ onQuickPromptClick
    \/ resetChat
    \/ FetchRejects
    \/ FetchResolves
    \/ ChunkArrives
    \/ StreamCloses
    \/ ReadRejects

SpecClient == ClientInit /\ [][ClientNext]_vars

(***************************************************************************)
(* The dice roller of the Worker.                                          *)
(*                                                                         *)
(* A 32-bit unsigned value is a pair <<high, low>> of 16-bit halves, so    *)
(* that 0xffffffff and its neighbours are exact.  crypto.getRandomValues   *)
(* is a source: a non-empty sequence of 32-bit values handed out in turn   *)
(* and again from the first when the last is used up; any source may       *)
(* occur.  Number() is exact up to MaxExactDigits digits; a longer numeral *)
(* counts as Beyond, which lies above every bound the roller compares a    *)
(* number with, and one of more than MaxFiniteDigits digits is Infinity.   *)
(***************************************************************************)
Half == 65536

maxUint32 == <<65535, 65535>>

WordLess(x, y) == x[1] < y[1] \/ (x[1] = y[1] /\ x[2] < y[2])

\* x % m for a 32-bit x and a small positive m
WordMod(x, m) == ((x[1] % m) * (Half % m) + (x[2] % m)) % m

\* x - n for a 32-bit x and 0 <= n < 65536, n <= x
WordMinus(x, n) == IF x[2] >= n THEN <<x[1], x[2] - n>> ELSE <<x[1] - 1, x[2] + Half - n>>

\* randIntInclusive with limit = maxUint32: no value is ever drawn again
LimitNoRejection(range) == maxUint32

\* const limit = maxUint32 - (maxUint32 % range)
Limit(range) == WordMinus(maxUint32, WordMod(maxUint32, range))

\* One turn of the while loop of randIntInclusive on the value x
TryWord(lo, range, x) ==
    IF WordLess(x, Limit(range))
    THEN [accepted |-> TRUE, value |-> lo + WordMod(x, range)]
    ELSE [accepted |-> FALSE, value |-> 0]

\* The value the source hands out at its pos-th use
WordAt(source, pos) == source[((pos - 1) % Len(source)) + 1]

\* Whether the loop of randIntInclusive ends on this source
Ends(range, source) == \E i \in DOMAIN source : WordLess(source[i], Limit(range))

RECURSIVE DrawLoop(_, _, _, _)
DrawLoop(lo, range, source, pos) ==
    LET try == TryWord(lo, range, WordAt(source, pos))
    IN IF try.accepted THEN [threw |-> FALSE, value |-> try.value, next |-> pos + 1]
       ELSE DrawLoop(lo, range, source, pos + 1)

\* randIntInclusive(min, max) from the pos-th use of the source on: the value, and
\* the use the next call starts from
randIntInclusive(min, max, source, pos) ==
    IF max < min THEN [threw |-> TRUE, value |-> 0, next |-> pos]
    ELSE DrawLoop(min, max - min + 1, source, pos)

Digits == <<"0", "1", "2", "3", "4", "5", "6", "7", "8", "9">>

DigitChars == {Digits[i] : i \in DOMAIN Digits}

Lower ==
    <<"a", "b", "c", "d", "e", "f", "g", "h", "i", "j", "k", "l", "m", "n", "o", "p", "q",
      "r", "s", "t", "u", "v", "w", "x", "y", "z">>

Upper ==
    <<"A", "B", "C", "D", "E", "F", "G", "H", "I", "J", "K", "L", "M", "N", "O", "P", "Q",
      "R", "S", "T", "U", "V", "W", "X", "Y", "Z">>

\* The characters \b tells from the others
WordChars ==
    {Lower[i] : i \in DOMAIN Lower} \cup {Upper[i] : i \in DOMAIN Upper} \cup DigitChars \cup {"_"}

LowerOf(c) ==
    IF \E i \in DOMAIN Upper : Upper[i] = c
    THEN Lower[CHOOSE i \in DOMAIN Upper : Upper[i] = c]
    ELSE c

\* String.prototype.toLowerCase
ToLowerCase(s) == [i \in DOMAIN s |-> LowerOf(s[i])]

RECURSIVE NatToString(_)
NatToString(n) ==
    IF n < 10 THEN <<Digits[n + 1]>>
    ELSE Append(NatToString(n \div 10), Digits[(n % 10) + 1])

\* A number in a template literal
NumberToString(n) == IF n < 0 THEN <<"-">> \o NatToString(-n) ELSE NatToString(n)

MaxExactDigits == 9

MaxFiniteDigits == 309

Beyond == 1000000000

RECURSIVE DigitsValue(_, _, _)
DigitsValue(s, i, acc) ==
    IF i > Len(s) THEN acc
    ELSE DigitsValue(s, i + 1,
                     10 * acc + ((CHOOSE d \in DOMAIN Digits : Digits[d] = s[i]) - 1))

RECURSIVE ZeroRun(_, _)
\* The position after the zeros of s that start at position i
ZeroRun(s, i) == IF i <= Len(s) /\ s[i] = "0" THEN ZeroRun(s, i + 1) ELSE i

\* Number() of digits with an optional sign: whether it is finite, and its value
Number(s) ==
    LET signed == s # <<>> /\ s[1] \in {"+", "-"}
        first == ZeroRun(s, IF signed THEN 2 ELSE 1)
        length == Len(s) - first + 1
        size == IF length > MaxExactDigits THEN Beyond ELSE DigitsValue(s, first, 0)
    IN [finite |-> length <= MaxFiniteDigits,
        value |-> IF signed /\ s[1] = "-" THEN -size ELSE size]

\* The least position of s from i on that holds none of the characters, or the
\* position after the last
RunEnd(s, i, chars) ==
    LET stops == {j \in i..Len(s) : s[j] \notin chars}
    IN IF stops = {} THEN (IF i > Len(s) THEN i ELSE Len(s) + 1)
       ELSE CHOOSE j \in stops : \A k \in stops : j <= k

\* The position after the digits of s that start at position i
DigitRun(s, i) == RunEnd(s, i, DigitChars)

\* expr.match(/^(\d*)d(\d+)([+-]\d+)?$/i): the three groups, the third <<>> when absent
MatchDice(expr) ==
    LET a == DigitRun(expr, 1)
        b == DigitRun(expr, a + 1)
        c == DigitRun(expr, b + 1)
        groups(third) ==
            [ok |-> TRUE, count |-> SubSeq(expr, 1, a - 1),
             faces |-> SubSeq(expr, a + 1, b - 1), mod |-> third]
        none == [ok |-> FALSE, count |-> <<>>, faces |-> <<>>, mod |-> <<>>]
    IN IF a > Len(expr) \/ expr[a] \notin {"d", "D"} \/ b = a + 1 THEN none
       ELSE IF b > Len(expr) THEN groups(<<>>)
       ELSE IF expr[b] \in {"+", "-"} /\ c > b + 1 /\ c > Len(expr)
       THEN groups(SubSeq(expr, b, Len(expr)))
       ELSE none

\* The position of the first white space of s from i on, or the position after
\* the last character
InkRun(s, i) ==
    LET stops == {j \in i..Len(s) : s[j] \in WhiteSpace}
    IN IF stops = {} THEN (IF i > Len(s) THEN i ELSE Len(s) + 1)
       ELSE CHOOSE j \in stops : \A k \in stops : j <= k

RECURSIVE SplitWhite(_, _)
\* s.split(/\s+/) from position i on, for a trimmed s
SplitWhite(s, i) ==
    LET e == InkRun(s, i)
    IN IF e > Len(s) THEN <<SubSeq(s, i, Len(s))>>
       ELSE <<SubSeq(s, i, e - 1)>> \o SplitWhite(s, FirstInk(s, e))

\* /\bw\b/.test(s)
HasWord(s, w) ==
    \E i \in DOMAIN s :
        /\ MatchAt(s, w, i)
        /\ i = 1 \/ s[i - 1] \notin WordChars
        /\ i + Len(w) > Len(s) \/ s[i + Len(w)] \notin WordChars

RollCommand ==
    <<"/","r","o","l","l">>
UsageText ==
    <<"U","t","i","l","i","s","a","t","i","o","n",":"," ","U+0060","/","r","o","l","l"," ","N",
      "d","M","+","K","U+0060"," ","(","e","x",":"," ","U+0060","/","r","o","l","l"," ","2","d",
      "6","+","1","U+0060",","," ","U+0060","/","r","o","l","l"," ","d","2","0","U+0060",",",
      " ","U+0060","/","r","o","l","l"," ","1","d","2","0"," ","a","d","v","U+0060",")",".">>
FormatText ==
    <<"F","o","r","m","a","t"," ","i","n","v","a","l","i","d","e","."," ","E","x","e","m","p",
      "l","e",":"," ","U+0060","/","r","o","l","l"," ","2","d","6","+","1","U+0060"," ","o","u",
      " ","U+0060","/","r","o","l","l"," ","d","2","0","U+0060",".">>
InvalidText ==
    <<"E","x","p","r","e","s","s","i","o","n"," ","d","e"," ","d","U+00E9"," ","i","n","v","a",
      "l","i","d","e",".">>
CountRangeText ==
    <<"N","o","m","b","r","e"," ","d","e"," ","d","U+00E9","s"," ","h","o","r","s"," ","l","i",
      "m","i","t","e"," ","(","1","U+2013","5","0",")",".">>
FacesRangeText ==
    <<"N","o","m","b","r","e"," ","d","e"," ","f","a","c","e","s"," ","h","o","r","s"," ","l",
      "i","m","i","t","e"," ","(","2","U+2013","1","0","0","0",")",".">>
AdvOnlyText ==
    <<"L","e"," ","m","o","d","e"," ","U+0060","a","d","v","U+0060","/","U+0060","d","i","s",
      "U+0060"," ","e","s","t"," ","s","u","p","p","o","r","t","U+00E9"," ","u","n","i","q","u",
      "e","m","e","n","t"," ","p","o","u","r"," ","U+0060","/","r","o","l","l"," ","1","d","2",
      "0"," ","a","d","v","U+0060"," ","o","u"," ","U+0060","/","r","o","l","l"," ","1","d","2",
      "0"," ","d","i","s","U+0060",".">>
RollHead ==
    <<"U+1F3B2"," ","/","r","o","l","l"," ">>
JetsLabel ==
    <<"J","e","t","s",":"," ">>
KeptLabel ==
    <<" ","U+2192"," ","g","a","r","d","U+00E9",":"," ">>
TotalLabel ==
    <<"T","o","t","a","l",":"," ">>
\* A reply of rollDiceCommand: its text, and what the call drew and computed
Reply(kind, text, rolls, total, next) ==
    [kind |-> kind, text |-> text, rolls |-> rolls, total |-> total, drawn |-> next - 1]

ModStr(mod) ==
    IF mod = 0 THEN <<>>
    ELSE IF mod > 0 THEN <<"+">> \o NumberToString(mod)
    ELSE NumberToString(mod)

RECURSIVE RollLoop(_, _, _, _, _)
\* The for loop: the rolls after the i-th turn and the source's next use
RollLoop(n, faces, source, pos, rolls) ==
    IF Len(rolls) >= n THEN [rolls |-> rolls, next |-> pos]
    ELSE LET draw == randIntInclusive(1, faces, source, pos)
         IN RollLoop(n, faces, source, draw.next, Append(rolls, draw.value))

RECURSIVE Sum(_, _)
\* rolls.reduce((acc, v) => acc + v, 0) from position i on
Sum(rolls, i) == IF i > Len(rolls) THEN 0 ELSE rolls[i] + Sum(rolls, i + 1)

\* The branch of rollDiceCommand for adv and dis
AdvReply(wantAdv, mod, source) ==
    LET a == randIntInclusive(1, 20, source, 1)
        b == randIntInclusive(1, 20, source, a.next)
        kept == IF wantAdv THEN (IF a.value >= b.value THEN a.value ELSE b.value)
                ELSE (IF a.value <= b.value THEN a.value ELSE b.value)
        total == kept + mod
        text == RollHead \o <<"1", "d", "2", "0", " ">>
                    \o (IF wantAdv THEN <<"a", "d", "v">> ELSE <<"d", "i", "s">>)
                    \o ModStr(mod) \o <<LF>>
                \o JetsLabel \o NumberToString(a.value) \o <<",", " ">>
                    \o NumberToString(b.value) \o KeptLabel \o NumberToString(kept)
                    \o (IF mod # 0 THEN <<" ", "(">> \o ModStr(mod) \o <<")">> ELSE <<>>)
                    \o <<LF>>
                \o TotalLabel \o NumberToString(total)
    IN Reply("adv", text, <<a.value, b.value>>, total, b.next)

\* The last branch of rollDiceCommand: n dice
DiceReply(n, faces, mod, source) ==
    LET loop == RollLoop(n, faces, source, 1, <<>>)
        rolls == loop.rolls
        total == Sum(rolls, 1) + mod
        text == RollHead \o NumberToString(n) \o <<"d">> \o NumberToString(faces)
                    \o ModStr(mod) \o <<LF>>
                \o JetsLabel
                    \o Join([i \in DOMAIN rolls |-> NumberToString(rolls[i])], <<",", " ">>)
                    \o (IF mod # 0 THEN <<" ", "(">> \o ModStr(mod) \o <<")">> ELSE <<>>)
                    \o <<LF>>
                \o TotalLabel \o NumberToString(total)
    IN Reply("rolled", text, rolls, total, loop.next)

\* The test on the number of dice with 0 let through
CountOutOfRangeFromZero(n) == n < 0 \/ n > 50

\* if (n < 1 || n > 50)
CountOutOfRange(n) == n < 1 \/ n > 50

\* if (faces < 2 || faces > 1000)
FacesOutOfRange(faces) == faces < 2 \/ faces > 1000

rollDiceCommand(input, source) ==
    LET rest == Trim(IF StartsWith(ToLowerCase(input), RollCommand)
                     THEN Drop(input, Len(RollCommand)) ELSE input)
        tokens == SplitWhite(rest, 1)
        expr == tokens[1]
        mode == ToLowerCase(Join(Tail(tokens), <<" ">>))
        m == MatchDice(expr)
        count == IF m.count # <<>> THEN Number(m.count) ELSE [finite |-> TRUE, value |-> 1]
        sides == Number(m.faces)
        bonus == IF m.mod # <<>> THEN Number(m.mod) ELSE [finite |-> TRUE, value |-> 0]
        n == count.value
        faces == sides.value
        mod == bonus.value
        wantAdv == HasWord(mode, <<"a", "d", "v">>)
        wantDis == HasWord(mode, <<"d", "i", "s">>)
    IN IF rest = <<>> THEN Reply("usage", UsageText, <<>>, 0, 1)
       ELSE IF ~m.ok THEN Reply("format", FormatText, <<>>, 0, 1)
       ELSE IF ~count.finite \/ ~sides.finite \/ ~bonus.finite
       THEN Reply("invalid", InvalidText, <<>>, 0, 1)
       ELSE IF CountOutOfRange(n) THEN Reply("count", CountRangeText, <<>>, 0, 1)
       ELSE IF FacesOutOfRange(faces) THEN Reply("faces", FacesRangeText, <<>>, 0, 1)
       ELSE IF (wantAdv \/ wantDis) /\ ~(n = 1 /\ faces = 20)
       THEN Reply("advOnly", AdvOnlyText, <<>>, 0, 1)
       ELSE IF wantAdv \/ wantDis THEN AdvReply(wantAdv, mod, source)
       ELSE DiceReply(n, faces, mod, source)

(***************************************************************************)
(* The dice roller alone: one /roll command on any source, or one turn of  *)
(* the loop of randIntInclusive(1, faces) on one 32-bit value.             *)
(***************************************************************************)
MaxPeriod == 2

\* Values a source hands out: small ones, one well below 2^32, and the last values
\* of the 32-bit space, which the loop refuses for some ranges or for all
SampleWords == {<<0, 0>>, <<0, 7>>, <<40000, 123>>, <<65535, 65531>>, maxUint32}

Sources == UNION {[1..n -> SampleWords] : n \in 1..MaxPeriod}

\* A number of dice or of faces that is not a number: none written, or a numeral
\* too long to be finite
Unwritten == -1

Endless == -2

LongNumeral == <<"1">> \o [i \in 1..MaxFiniteDigits |-> "0"]

Numeral(n) ==
    IF n = Unwritten THEN <<>> ELSE IF n = Endless THEN LongNumeral ELSE NumberToString(n)

\* The numerals of the commands: a number of dice, a number of faces, a modifier
\* (0: none written)
Counts == {Unwritten, Endless, 0, 1, 2, 50, 51}

FaceCounts == {Endless, 1, 2, 6, 20, 1000, 1001}

Mods == {0, 1, -2}

Modes == {<<>>, <<" ", "a", "d", "v">>, <<" ", "D", "i", "s">>}

\* The command /roll NdM+K with its mode
Command(n, faces, mod, mode) ==
    RollCommand \o <<" ">> \o Numeral(n) \o <<"d">> \o Numeral(faces) \o ModStr(mod) \o mode

\* Commands that are no NdM+K
OddCommands ==
    { RollCommand,
      RollCommand \o <<" ", " ">>,
      <<"/", "R", "o", "l", "l", " ", "2", "D", "6">>,
      RollCommand \o <<" ", "2", "x", "6">>,
      RollCommand \o <<" ", "2", "d">>,
      RollCommand \o <<" ", "2", "d", "6", "+">>,
      RollCommand \o <<" ", "2", "d", "6", " ", "+", "1">>,
      RollCommand \o <<"o", "v", "e", "r">> }

\* The 32-bit values around the multiples of range that decide a draw
DrawSamples(range) ==
    LET limit == Limit(range)
    IN { <<0, 0>>, <<0, 1>>, <<0, range - 1>>, <<0, range>>, WordMinus(limit, range),
         WordMinus(limit, 1), limit, maxUint32 }

\* The source serves every draw a command can ask for
Serves(source) == Ends(20, source) /\ \A f \in FaceCounts : f >= 2 => Ends(f, source)

\* What is about to be computed
DiceInputs ==
    { [op |-> "command", n |-> n, faces |-> faces, mod |-> mod, mode |-> mode,
       input |-> Command(n, faces, mod, mode), source |-> source] :
          n \in Counts, faces \in FaceCounts, mod \in Mods, mode \in Modes,
          source \in {s \in Sources : Serves(s)} }
    \cup { [op |-> "other", input |-> input, source |-> source] :
              input \in OddCommands, source \in {s \in Sources : Serves(s)} }
    \cup UNION { { [op |-> "value", faces |-> faces, x |-> x] : x \in DrawSamples(faces) } :
                    faces \in 2..1000 }

DiceInit ==
    /\ dice \in DiceInputs
    /\ http = IdleWorker
    /\ chatHistory = <<>>
    /\ isProcessing = FALSE
    /\ userInput = <<>>
    /\ inputDisabled = FALSE
    /\ chatMessages = <<>>
    /\ calls = <<>>
    /\ fetchCalls = 0
    /\ resetMark = 0

RollDice ==
    /\ dice.op = "command"
    /\ dice' = [op |-> "roll", n |-> dice.n, faces |-> dice.faces, mod |-> dice.mod,
                mode |-> dice.mode, input |-> dice.input, source |-> dice.source,
                reply |-> rollDiceCommand(dice.input, dice.source)]
    /\ UNCHANGED <<clientVars, http>>

RollOther ==
    /\ dice.op = "other"
    /\ dice' = [op |-> "rollOther", input |-> dice.input, source |-> dice.source,
                reply |-> rollDiceCommand(dice.input, dice.source)]
    /\ UNCHANGED <<clientVars, http>>

DrawOnce ==
    /\ dice.op = "value"
    /\ dice' = [op |-> "draw", faces |-> dice.faces, x |-> dice.x,
                limit |-> Limit(dice.faces), try |-> TryWord(1, dice.faces, dice.x)]
    /\ UNCHANGED <<clientVars, http>>

DiceNext == RollDice \/ RollOther \/ DrawOnce

SpecDice == DiceInit /\ [][DiceNext]_vars

(***************************************************************************)
(* The Worker: the router and the chat handler.                            *)
(*                                                                         *)
(* A request is its path, its method, its body and what the environment    *)
(* does for it: whether env.AI.run returns a stream or throws, and the     *)
(* source of random values.  A body is malformed JSON, or JSON with a      *)
(* message list and possibly a profile.  Missing stands for a field that    *)
(* holds no string.                                                        *)
(***************************************************************************)
Missing == <<"undefined">>

NoMessage == [role |-> "none", content |-> Missing]

NoCasus == [given |-> FALSE, mode |-> Missing, univers |-> Missing, style |-> Missing]

CasusMarker ==
    <<"T","u"," ","e","s"," ","C","a","s","u","s">>
\* The first line of the persona as written, the other lines one token each
SYSTEM_PROMPT ==
    Join(<< <<"T","u"," ","e","s"," ","C","a","s","u","s",","," ","u","n"," ","a","s","s","i","s","t",
      "a","n","t"," ","d","e"," ","j","e","u"," ","d","e"," ","r","U+00F4","l","e"," ","(","J",
      "d","R",")"," ","e","n"," ","f","r","a","n","U+00E7","a","i","s",".">>,
            <<"Ton but: aider a creer des aventures, PNJ, intrigues, ambiances, regles maison, scenes, et a maitriser des parties.">>,
            <<"Style: clair, vivant, concret, oriente action; propose des options; pose 1-3 questions quand une info manque.">>,
            <<"Ne revele pas d'infos non demandees. Evite les paves: utilise des listes courtes et des titres.">>,
            <<"Securite: pas de contenu illegal; si un sujet est sensible, recentre vers une alternative sure.">> >>,
         <<LF>>)

ProfileHeader ==
    <<"C","o","n","t","e","x","t","e"," ","d","e"," ","p","a","r","t","i","e",":","\n">>
ModeMjLine ==
    <<"M","o","d","e",":"," ","M","J"," ","(","a","i","d","e"," ","U+00E0"," ","m","a","U+00EE",
      "t","r","i","s","e","r",","," ","p","r","U+00E9","p","a","r","e","r",","," ","i","m","p",
      "r","o","v","i","s","e","r",")",".">>
ModeJoueurLine ==
    <<"M","o","d","e",":"," ","J","o","u","e","u","r"," ","(","a","i","d","e"," ","U+00E0"," ",
      "i","n","c","a","r","n","e","r",","," ","p","r","o","p","o","s","e","r"," ","d","e","s",
      " ","a","c","t","i","o","n","s",","," ","o","p","t","i","m","i","s","e","r"," ","s","a",
      "n","s"," ","s","p","o","i","l","e","r",")",".">>
UniversLabel ==
    <<"U","n","i","v","e","r","s","/","t","o","n",":"," ">>
StyleLabel ==
    <<"C","o","n","t","r","a","i","n","t","e","s"," ","d","e"," ","s","t","y","l","e",":"," ">>
HelpText ==
    <<"C","o","m","m","a","n","d","e","s"," ","C","a","s","u","s"," ",":","\n","-"," ","/","r",
      "o","l","l"," ","2","d","6","+","1"," "," ","(","e","x",":"," ","/","r","o","l","l"," ",
      "d","2","0",","," ","/","r","o","l","l"," ","1","d","2","0"," ","a","d","v",","," ","/",
      "r","o","l","l"," ","1","d","2","0"," ","d","i","s",")","\n","-"," ","/","h","e","l","p">>
HelpCommand ==
    <<"/","h","e","l","p">>
ApiPrefix ==
    <<"/","a","p","i","/">>
ChatPath ==
    <<"/","a","p","i","/","c","h","a","t">>
\* JSON.stringify({ error: "Failed to process request" })
ErrorBody == <<"{", QUOTE, "error", QUOTE, ":", QUOTE, "Failed to process request", QUOTE, "}">>

EventStream == "text/event-stream; charset=utf-8"

\* casus.mode?.trim()
TrimField(v) == IF v = Missing THEN Missing ELSE Trim(v)

buildCasusProfileSystemMessage(casus) ==
    LET mode == TrimField(casus.mode)
        univers == TrimField(casus.univers)
        style == TrimField(casus.style)
        lines == (IF mode = <<"m", "j">> THEN <<ModeMjLine>> ELSE <<>>)
                 \o (IF mode = <<"j", "o", "u", "e", "u", "r">> THEN <<ModeJoueurLine>> ELSE <<>>)
                 \o (IF univers \notin {Missing, <<>>} THEN <<UniversLabel \o univers>> ELSE <<>>)
                 \o (IF style \notin {Missing, <<>>} THEN <<StyleLabel \o style>> ELSE <<>>)
    IN IF ~casus.given \/ lines = <<>> THEN NoMessage
       ELSE [role |-> "system", content |-> ProfileHeader \o Join(lines, <<LF>>)]

\* handleCommand without trim() and toLowerCase()
handleCommandAsTyped(raw, source) ==
    [threw |-> raw = Missing,
     text |-> IF raw = Missing THEN <<>>
              ELSE IF raw = HelpCommand THEN HelpText
              ELSE IF StartsWith(raw, RollCommand) THEN rollDiceCommand(raw, source).text
              ELSE <<>>]

\* handleCommand(raw): whether it threw, and the reply, <<>> for null
handleCommand(raw, source) ==
    [threw |-> raw = Missing,
     text |-> IF raw = Missing THEN <<>>
              ELSE IF ToLowerCase(Trim(raw)) = HelpCommand THEN HelpText
              ELSE IF StartsWith(ToLowerCase(Trim(raw)), RollCommand)
              THEN rollDiceCommand(Trim(raw), source).text
              ELSE <<>>]

\* [...messages].reverse().find((m) => m.role === "user")
LastUser(messages) ==
    LET users == {i \in DOMAIN messages : messages[i].role = "user"}
    IN IF users = {} THEN NoMessage
       ELSE messages[CHOOSE i \in users : \A j \in users : j <= i]

RECURSIVE SomeCasus(_, _)
\* messages.some(...) from position i on: "yes", "no", or "threw" at a system message
\* without a string content
SomeCasus(messages, i) ==
    IF i > Len(messages) THEN "no"
    ELSE IF messages[i].role # "system" THEN SomeCasus(messages, i + 1)
    ELSE IF messages[i].content = Missing THEN "threw"
    ELSE IF Includes(messages[i].content, CasusMarker) THEN "yes"
    ELSE SomeCasus(messages, i + 1)

\* messages.findIndex((m) => m.role !== "system"), counted from 0
FindIndexNotSystem(messages) ==
    LET others == {i \in DOMAIN messages : messages[i].role # "system"}
    IN IF others = {} THEN -1
       ELSE (CHOOSE i \in others : \A j \in others : i <= j) - 1

\* The index, counted from 0, that the profile is spliced in at
InsertIndex(messages) ==
    LET found == FindIndexNotSystem(messages)
        insertAt == IF found < 1 THEN found ELSE 1
    IN IF insertAt = -1 THEN 1 ELSE insertAt

\* messages.splice(idx, 0, item)
Splice(messages, idx, item) ==
    LET at == IF idx > Len(messages) THEN Len(messages) ELSE idx
    IN Take(messages, at) \o <<item>> \o Drop(messages, at)

\* The message list as handleChatRequest passes it to the model
Compose(messages, casus) ==
    LET has == SomeCasus(messages, 1)
        based == IF has = "no"
                 THEN <<[role |-> "system", content |-> SYSTEM_PROMPT]>> \o messages
                 ELSE messages
        profile == buildCasusProfileSystemMessage(casus)
    IN [threw |-> has = "threw",
        messages |-> IF has = "threw" THEN <<>>
                     ELSE IF profile = NoMessage THEN based
                     ELSE Splice(based, InsertIndex(based), profile)]

\* A handler's outcome: the response, and what was called on the way
Outcome(status, contentType, kind, chunks, thrownAt) ==
    [status |-> status, contentType |-> contentType, kind |-> kind, chunks |-> chunks,
     thrownAt |-> thrownAt, escaped |-> FALSE, aiRuns |-> 0, aiMessages |-> <<>>]

\* A catch block that answers with the stream headers and no status
CatchErrorAsStream(stage) == Outcome(200, EventStream, "json", <<ErrorBody>>, stage)

\* The catch block of handleChatRequest
CatchError(stage) == Outcome(500, "application/json", "json", <<ErrorBody>>, stage)

handleChatRequest(request) ==
    IF request.body.kind = "malformed" THEN CatchError("parse")
    ELSE LET messages == request.body.messages
             lastUser == LastUser(messages)
             command == IF lastUser = NoMessage THEN [threw |-> FALSE, text |-> <<>>]
                        ELSE handleCommand(lastUser.content, request.source)
             composed == Compose(messages, request.body.casus)
         IN IF command.threw THEN CatchError("command")
            ELSE IF command.text # <<>>
            THEN Outcome(200, EventStream, "local", sseTextChunks(command.text), "none")
            ELSE IF composed.threw THEN CatchError("compose")
            ELSE IF request.upstream = "throws"
            THEN [CatchError("upstream") EXCEPT !.aiRuns = 1, !.aiMessages = composed.messages]
            ELSE [Outcome(200, EventStream, "upstream", <<>>, "none")
                     EXCEPT !.aiRuns = 1, !.aiMessages = composed.messages]

\* The router with startsWith("/api")
fetchApiWithoutSlash(pathname, method) ==
    IF pathname = <<"/">> \/ ~StartsWith(pathname, Take(ApiPrefix, 4)) THEN "assets"
    ELSE IF pathname = ChatPath THEN (IF method = "POST" THEN "chat" ELSE "405")
    ELSE "404"

\* The branch the router takes
fetch(pathname, method) ==
    IF pathname = <<"/">> \/ ~StartsWith(pathname, ApiPrefix) THEN "assets"
    ELSE IF pathname = ChatPath THEN (IF method = "POST" THEN "chat" ELSE "405")
    ELSE "404"

(***************************************************************************)
(* The Worker alone: one request, routed and answered.                     *)
(***************************************************************************)
MaxMessages == 3

Persona == CasusMarker \o <<".">>

SampleMessages ==
    { [role |-> "system", content |-> Persona],
      [role |-> "system", content |-> <<"s">>],
      [role |-> "system", content |-> Missing],
      [role |-> "user", content |-> Hi],
      [role |-> "user", content |-> <<" ", "/", "H", "e", "l", "p", LF>>],
      [role |-> "user", content |-> <<"/", "R", "O", "L", "L", " ", "2", "d", "6", "+", "1">>],
      [role |-> "user", content |-> <<"/", "r", "o", "l", "l", "o", "v", "e", "r">>],
      [role |-> "user", content |-> Missing],
      [role |-> "assistant", content |-> <<"o", "k">>] }

MessageLists == UNION {[1..n -> SampleMessages] : n \in 0..MaxMessages}

Profiles ==
    { NoCasus,
      [given |-> TRUE, mode |-> <<"m", "j">>, univers |-> Missing, style |-> Missing],
      [given |-> TRUE, mode |-> <<" ", "j", "o", "u", "e", "u", "r">>, univers |-> <<"s", "f">>,
       style |-> <<"b">>],
      [given |-> TRUE, mode |-> <<"x">>, univers |-> Missing, style |-> <<" ">>] }

Bodies ==
    {[kind |-> "malformed", messages |-> <<>>, casus |-> NoCasus]}
    \cup {[kind |-> "json", messages |-> ms, casus |-> c] : ms \in MessageLists, c \in Profiles}

\* What the environment does: env.AI.run and the random values
Environments ==
    { [upstream |-> "stream", source |-> <<<<0, 7>>>>],
      [upstream |-> "throws", source |-> <<maxUint32, <<40000, 123>>>>] }

Paths ==
    { <<"/">>, <<"/", "c", "h", "a", "t">>, <<"/", "a", "p", "i">>, ApiPrefix, ChatPath,
      ChatPath \o <<"/">>, ApiPrefix \o <<"x">>, <<"/", "a", "p", "i", "x", "/", "c", "h", "a", "t">>,
      <<"/", "A", "P", "I", "/", "c", "h", "a", "t">>, <<"/", "x">> \o ChatPath }

Methods == {"GET", "POST", "PUT", "DELETE"}

Request(pathname, method, body, env) ==
    [op |-> "request", pathname |-> pathname, method |-> method, body |-> body,
     upstream |-> env.upstream, source |-> env.source]

Requests ==
    {Request(ChatPath, "POST", b, e) : b \in Bodies, e \in Environments}
    \cup {Request(p, m, [kind |-> "malformed", messages |-> <<>>, casus |-> NoCasus], e) :
             p \in Paths, m \in Methods, e \in Environments}

ServerInit ==
    /\ http \in Requests
    /\ dice = IdleDice
    /\ chatHistory = <<>>
    /\ isProcessing = FALSE
    /\ userInput = <<>>
    /\ inputDisabled = FALSE
    /\ chatMessages = <<>>
    /\ calls = <<>>
    /\ fetchCalls = 0
    /\ resetMark = 0

\* The request answered by the handler of that name, with the collaborators' calls
Answered(handler, outcome, assetCalls, chatCalls) ==
    [op |-> "answered", request |-> http, handler |-> handler, outcome |-> outcome,
     assetCalls |-> assetCalls, chatCalls |-> chatCalls]

\* return env.ASSETS.fetch(request)
ServeAsset ==
    /\ http.op = "request"
    /\ fetch(http.pathname, http.method) = "assets"
    /\ http' = Answered("assets", Outcome(200, "asset", "asset", <<http>>, "none"), 1, 0)
    /\ UNCHANGED <<clientVars, dice>>

\* return handleChatRequest(request, env)
Chat ==
    /\ http.op = "request"
    /\ fetch(http.pathname, http.method) = "chat"
    /\ http' = Answered("chat", handleChatRequest(http), 0, 1)
    /\ UNCHANGED <<clientVars, dice>>

MethodNotAllowed ==
    /\ http.op = "request"
    /\ fetch(http.pathname, http.method) = "405"
    /\ http' = Answered("405", Outcome(405, "text/plain;charset=UTF-8", "text",
                                       <<<<"Method not allowed">>>>, "none"), 0, 0)
    /\ UNCHANGED <<clientVars, dice>>

NotFound ==
    /\ http.op = "request"
    /\ fetch(http.pathname, http.method) = "404"
    /\ http' = Answered("404", Outcome(404, "text/plain;charset=UTF-8", "text",
                                       <<<<"Not found">>>>, "none"), 0, 0)
    /\ UNCHANGED <<clientVars, dice>>

ServerNext == ServeAsset \/ Chat \/ MethodNotAllowed \/ NotFound

SpecServer == ServerInit /\ [][ServerNext]_vars

(***************************************************************************)
(* The claims.                                                             *)
(***************************************************************************)
IsPrefix(p, s) == StartsWith(s, p)

\* C1: when the bytes of sseTextResponse(text) have been read, cut into chunks at
\* any positions, the call ended on [DONE] and its responseText is text, and the
\* history entry it pushed (none for the empty text) carries text.
C1_RoundTrip ==
    \A r \in DOMAIN calls :
        (calls[r].origin = "encoder" /\ calls[r].pc = "done")
            => /\ calls[r].sawDone
               /\ calls[r].responseText = calls[r].sent
               /\ chatHistory[Len(chatHistory)].content
                      = (IF calls[r].sent = <<>> THEN Hi ELSE calls[r].sent)

\* A text with a quote, a line break and a two-byte character came back whole
C1_Witness ==
    /\ calls[1].origin = "encoder"
    /\ calls[1].pc = "done"
    /\ calls[1].split
    /\ calls[1].sent = <<LF, "U+00E9">>
    /\ calls[1].responseText = <<LF, "U+00E9">>

RECURSIVE RefWalk(_, _, _, _)
\* A line-by-line reading of an event stream: a blank line (or the end of the
\* stream) dispatches the data lines gathered since the last one; the text is what
\* the events before the first [DONE] carry, in order
RefWalk(lines, i, data, text) ==
    LET payload == Join(data, <<LF>>)
        isBlank == i > Len(lines) \/ lines[i] = <<>>
    IN IF isBlank /\ data # <<>> /\ payload = DoneMarker THEN text
       ELSE IF i > Len(lines)
       THEN IF data = <<>> THEN text ELSE text \o EventContent(payload)
       ELSE IF isBlank
       THEN RefWalk(lines, i + 1, <<>>,
                    IF data = <<>> THEN text ELSE text \o EventContent(payload))
       ELSE IF StartsWith(lines[i], DataField)
       THEN RefWalk(lines, i + 1,
                    Append(data, TrimStart(Drop(lines[i], Len(DataField)))), text)
       ELSE RefWalk(lines, i + 1, data, text)

RefText(stream) ==
    RefWalk(Split(RemoveCR(TextDecodeStream(<<>>, stream).text), LF), 1, <<>>, <<>>)

\* C2: the values flushed to the element form a chain of prefixes ending in
\* responseText, and when the call is over responseText is the text of the events
\* before the first [DONE] of the whole body; once [DONE] was met the buffer is
\* empty and no read follows.
C2_OrderedUntilDone ==
    \A r \in DOMAIN calls :
        LET call == calls[r]
        IN /\ \A i \in 1..(Len(call.flushed) - 1) :
                  /\ IsPrefix(call.flushed[i], call.flushed[i + 1])
                  /\ call.flushed[i] # call.flushed[i + 1]
           /\ call.flushed # <<>> => call.flushed[Len(call.flushed)] = call.responseText
           /\ call.flushed = <<>> => call.responseText = <<>>
           /\ call.pc = "done" => call.responseText = RefText(call.stream)
           /\ call.sawDone => call.pc = "done" /\ call.buffer = <<>>

\* An event was rendered, [DONE] was met in a later chunk, and of the event that
\* follows it some bytes were read with it and the others never
C2_Witness ==
    /\ calls[1].origin = "upstream"
    /\ calls[1].pc = "done"
    /\ calls[1].sawDone
    /\ calls[1].split
    /\ calls[1].wire # <<>>
    /\ Len(calls[1].wire) < Len(BlockDelta)
    /\ calls[1].responseText = <<"a">>
    /\ calls[1].stream = TextEncode(BlockResponse \o BlockDone \o BlockDelta)

\* The calls that have started and not returned
InFlight == {r \in DOMAIN calls : calls[r].pc # "done"}

\* C9: every assistant entry of the history follows the user entry of the call
\* that produced it, and the history holds nothing of a call that had started when
\* resetChat last emptied it.
C9_HistoryWellFormed ==
    \A i \in DOMAIN chatHistory :
        /\ chatHistory[i].req > resetMark
        /\ chatHistory[i].role = "assistant"
              => /\ i > 1
                 /\ chatHistory[i - 1].role = "user"
                 /\ chatHistory[i - 1].req = chatHistory[i].req

\* C10: at most one call is in flight, isProcessing is true exactly while one is,
\* every call issued one fetch, and a handler that calls sendMessage while
\* isProcessing is true starts no call, issues no fetch and leaves the history as
\* it is.
C10_OneInFlight ==
    [][ /\ Cardinality(InFlight') <= 1
        /\ isProcessing' <=> (InFlight' # {})
        /\ fetchCalls' = Len(calls')
        /\ (isProcessing /\ (KeydownEnter \/ SendClick \/ onQuickPromptClick))
              => /\ calls' = calls
                 /\ fetchCalls' = fetchCalls
                 /\ chatHistory' = chatHistory ]_vars

\* A quick prompt was clicked while the first call was reading: its text sits in
\* the textarea and no second call started
C10_Witness ==
    /\ Len(calls) = 1
    /\ calls[1].pc = "reading"
    /\ calls[1].responseText # <<>>
    /\ isProcessing
    /\ inputDisabled
    /\ userInput = Hi
    /\ fetchCalls = 1


\* What the i-th of the first uses of the source is refused for
Refused(source, range, uses) ==
    {i \in 1..uses : ~WordLess(WordAt(source, i), Limit(range))}

EndsWith(s, tail) == Len(s) >= Len(tail) /\ SubSeq(s, Len(s) - Len(tail) + 1, Len(s)) = tail

\* The reply to /roll NdM+K without adv or dis, N in [1,50] and M in [2,1000]: N values
\* are drawn, each in [1,M], and the total reported is their sum plus K
Rolled(d) ==
    LET N == IF d.n = Unwritten THEN 1 ELSE d.n
        r == d.reply
    IN /\ r.kind = "rolled"
       /\ Len(r.rolls) = N
       /\ \A i \in DOMAIN r.rolls : r.rolls[i] \in 1..d.faces
       /\ r.drawn >= N
       /\ Cardinality(Refused(d.source, d.faces, r.drawn)) = r.drawn - N
       /\ r.total = Sum(r.rolls, 1) + d.mod
       /\ N + d.mod <= r.total
       /\ r.total <= N * d.faces + d.mod
       /\ EndsWith(r.text, TotalLabel \o NumberToString(Sum(r.rolls, 1) + d.mod))

CountWritten(d) == d.n = Unwritten \/ d.n \in 1..50

FacesWritten(d) == d.faces \in 2..1000

CountError(d) == d.reply.text = CountRangeText /\ d.reply.drawn = 0 /\ d.reply.rolls = <<>>

FacesError(d) == d.reply.text = FacesRangeText /\ d.reply.drawn = 0 /\ d.reply.rolls = <<>>

C7_Unbiased ==
    dice.op = "draw" =>
        /\ dice.faces \in 2..1000
        /\ dice.limit # <<0, 0>>
        /\ WordMod(dice.limit, dice.faces) = 0
        /\ WordLess(WordMinus(maxUint32, dice.faces), dice.limit)
        /\ dice.try.accepted <=> WordLess(dice.x, dice.limit)
        /\ dice.try.accepted =>
              /\ dice.try.value \in 1..dice.faces
              /\ dice.try.value = 1 + WordMod(dice.x, dice.faces)

\* The greatest accepted value is drawn for a 1000-sided die: it yields 1000
C7_Witness ==
    /\ dice.op = "draw"
    /\ dice.faces = 1000
    /\ dice.x = WordMinus(dice.limit, 1)
    /\ dice.try.accepted
    /\ dice.try.value = 1000
    /\ WordLess(dice.limit, maxUint32)


ChatAnswered == http.op = "answered" /\ http.handler = "chat"

Parsed == ChatAnswered /\ http.request.body.kind = "json"

IsPersona(m) == m.role = "system" /\ m.content # Missing /\ Includes(m.content, CasusMarker)

IsProfile(m) == m.role = "system" /\ m.content # Missing /\ StartsWith(m.content, ProfileHeader)

YieldsProfile(casus) ==
    /\ casus.given
    /\ \/ TrimField(casus.mode) \in {<<"m", "j">>, <<"j", "o", "u", "e", "u", "r">>}
       \/ TrimField(casus.univers) \notin {Missing, <<>>}
       \/ TrimField(casus.style) \notin {Missing, <<>>}

\* C3 as stated: in the list passed to the model the base persona message is at the
\* front when no incoming system message held the marker, and the profile message
\* sits at the index immediately after the base persona message, wherever the base
\* persona was in the incoming list
C3_ProfileAfterPersona ==
    (ChatAnswered /\ http.outcome.aiRuns = 1 /\ YieldsProfile(http.request.body.casus)) =>
        LET incoming == http.request.body.messages
            passed == http.outcome.aiMessages
            personas == {i \in DOMAIN passed : IsPersona(passed[i])}
            base == CHOOSE i \in personas : \A j \in personas : i <= j
        IN /\ personas # {}
           /\ (\A i \in DOMAIN incoming : ~IsPersona(incoming[i]))
                 => passed[1] = [role |-> "system", content |-> SYSTEM_PROMPT]
           /\ base < Len(passed)
           /\ IsProfile(passed[base + 1])

\* Whether the text is a local command: /help, or a text that begins with /roll,
\* after trimming and ignoring case
IsCommand(content) ==
    /\ content # Missing
    /\ \/ ToLowerCase(Trim(content)) = HelpCommand
       \/ /\ Len(Trim(content)) >= Len(RollCommand)
          /\ ToLowerCase(SubSeq(Trim(content), 1, Len(RollCommand))) = RollCommand

\* The response is the locally encoded reply: one data: event carrying {response: text},
\* one data: [DONE] event, then close
LocalReply(o) ==
    /\ o.status = 200
    /\ o.contentType = EventStream
    /\ o.kind = "local"
    /\ Len(o.chunks) = 2
    /\ o.chunks[2] = <<"d", "a", "t", "a", ":", " ", "[", "D", "O", "N", "E", "]", LF, LF>>
    /\ LET first == o.chunks[1]
           open == <<"d", "a", "t", "a", ":", " ", "{", QUOTE, "r", "e", "s", "p", "o", "n", "s",
                     "e", QUOTE, ":", QUOTE>>
           close == <<QUOTE, "}", LF, LF>>
           inside == (Len(open) + 1)..(Len(first) - Len(close))
       IN /\ StartsWith(first, open)
          /\ EndsWith(first, close)
          /\ inside # {}
          /\ \A i \in inside : /\ first[i] \notin {LF, CR}
                               /\ first[i] = QUOTE => first[i - 1] = BSL

LastUserText == LastUser(http.request.body.messages).content

AllStrings == \A i \in DOMAIN http.request.body.messages :
                  http.request.body.messages[i].content # Missing

C5_SingleFailurePath ==
    ChatAnswered =>
        LET o == http.outcome
            failed == \/ http.request.body.kind = "malformed"
                      \/ o.thrownAt # "none"
                      \/ o.aiRuns = 1 /\ http.request.upstream = "throws"
        IN /\ ~o.escaped
           /\ o.thrownAt \in {"none", "parse", "command", "compose", "upstream"}
           /\ failed => /\ o.status = 500
                        /\ o.contentType = "application/json"
                        /\ o.chunks = <<ErrorBody>>
           /\ ~failed => /\ o.status = 200
                         /\ o.contentType = EventStream
                         /\ o.kind \in {"local", "upstream"}

\* env.AI.run is called with the composed messages and throws
C5_Witness ==
    /\ ChatAnswered
    /\ http.outcome.thrownAt = "upstream"
    /\ http.outcome.aiRuns = 1
    /\ Len(http.outcome.aiMessages) > 1
    /\ http.outcome.status = 500

ApiPath(pathname) == Len(pathname) >= 5 /\ SubSeq(pathname, 1, 5) = <<"/", "a", "p", "i", "/">>

\* C8: the router's outcome is one of four, determined by path and method: a path
\* equal to / or not prefixed by /api/ is passed unmodified to the asset collaborator;
\* POST on /api/chat goes to the chat handler; any other method on /api/chat returns
\* 405; any other /api/ path returns 404 whatever the method; the asset collaborator
\* is never called for an /api/ path nor the chat handler for a path other than
\* /api/chat
C8_Routes ==
    http.op = "answered" =>
        LET r == http.request
            expected == IF ~ApiPath(r.pathname) THEN "assets"
                        ELSE IF r.pathname # <<"/", "a", "p", "i", "/", "c", "h", "a", "t">> THEN "404"
                        ELSE IF r.method = "POST" THEN "chat"
                        ELSE "405"
        IN /\ http.handler = expected
           /\ http.assetCalls = (IF expected = "assets" THEN 1 ELSE 0)
           /\ http.chatCalls = (IF expected = "chat" THEN 1 ELSE 0)
           /\ expected = "assets" => http.outcome.chunks = <<r>>
           /\ expected = "405" => http.outcome.status = 405
           /\ expected = "404" => http.outcome.status = 404
           /\ ApiPath(r.pathname) => http.assetCalls = 0
           /\ r.pathname # <<"/", "a", "p", "i", "/", "c", "h", "a", "t">> => http.chatCalls = 0

\* A POST on a path that goes on after /api/chat is not found
C8_Witness ==
    /\ http.op = "answered"
    /\ http.request.pathname = <<"/", "a", "p", "i", "/", "c", "h", "a", "t", "/">>
    /\ http.request.method = "POST"
    /\ http.handler = "404"
    /\ http.outcome.status = 404

====
